---- MODULE Spec2Model ----
(***************************************************************************)
(* python-asyncio-taps: the connection-establishment and data-transfer     *)
(* engine.  One Connection (src/pytaps/connection.py) with the transport   *)
(* sessions of src/PyTAPS/transports.py, driven by a single-threaded       *)
(* asyncio event loop.                                                     *)
(*                                                                         *)
(* The event loop is the FIFO queue loopq: loop.create_task(coro),         *)
(* loop.call_soon(cb) and the wake-up of a task whose future got a result  *)
(* each append one entry; the loop runs the head entry up to its next      *)
(* suspension point.  Network completions, timers and calls made by the    *)
(* application happen between two loop steps.                              *)
(*                                                                         *)
(* connection.framer is None throughout (the framer is an external         *)
(* collaborator).  A session is named by the index of the candidate whose  *)
(* attempt constructed it.                                                 *)
(***************************************************************************)
EXTENDS Integers, Sequences, FiniteSets, TLC

VARIABLES
    \* ---- Connection (src/pytaps/connection.py) ----
    state,              \* Connection.state
    active,             \* Connection.active
    transports,         \* Connection.transports: sessions in construction order
    candidate_set,      \* race(): the protocol of each candidate, in order
    security_context,   \* TRUE iff security parameters were given (TLS for TCP)
    local_endpoint,     \* TRUE iff a local endpoint was given
    callbacks,          \* the callback slots that are set
    rpc,                \* position of the race() coroutine
    ridx,               \* race(): index of the next candidate of the for loop
    \* ---- attempts and sessions (src/PyTAPS/transports.py) ----
    att,                \* per candidate: stage of its connect task
    sock,               \* per candidate: its socket
    transport_set,      \* per session: self.transport has been assigned
    message_count,      \* per session: TransportLayer.message_count
    recv_buffer,        \* session transports[0]: TransportLayer.recv_buffer
    waiters,            \* session transports[0]: TransportLayer.waiters
    at_eof,             \* session transports[0]: TransportLayer.at_eof
    conn_at_eof,        \* the attribute at_eof that eof_received sets on the Connection
    suspended,          \* read tasks suspended in await_data, by request
    \* ---- event loop ----
    loopq,
    \* ---- history (observations of the run; never read by the program) ----
    est_changes,        \* number of changes ESTABLISHING -> ESTABLISHED
    winner,             \* the session that first set the state to ESTABLISHED
    late,               \* sessions whose connect completed after a session had won
    events,             \* callbacks scheduled so far
    close_log,          \* one entry per close() call
    send_log,           \* one entry per send_message() call
    written,            \* number of transport.write / transport.sendto calls made
    net_in,             \* number of bytes read from the network so far
    eof_seen,           \* end-of-stream has been observed on the session
    requests,           \* receive requests issued so far
    deliveries,         \* deliveries to receive requests so far
    next_waiter,        \* number of futures created by await_data so far
    dgrams_in,          \* the datagrams received from the network so far
    \* ---- candidate selection (Connection.create_candidates) ----
    transport_properties,   \* transport_properties.properties: name -> PreferenceLevel
    available_protocols,    \* get_protocols(): the protocol table, in its order
    sorted_candidates,      \* what create_candidates returned, once it was called
    \* ---- race(): address resolution and the candidate set it builds ----
    remote_info,            \* loop.getaddrinfo(...): entries of a family and an address
    race_candidate_set,     \* the list candidate_set of race(), once it was built
    \* ---- framer (external collaborator) ----
    handle_start,           \* per session: calls of framer.handle_start, and whether one is pending
    \* ---- Listener (src/pytaps/listener.py) ----
    listener,               \* start_listener: its candidates, position and the listeners set up
    handler_transport,      \* DatagramHandler.transport: the listener's datagram socket
    remotes,                \* DatagramHandler.remotes: the Connection accepted from each peer
    peer_dgrams             \* history: the datagrams the handler got from each peer

connVars == <<state, active, transports, candidate_set, security_context,
              local_endpoint, callbacks, rpc, ridx>>
sessVars == <<att, sock, transport_set, message_count>>
recvVars == <<recv_buffer, waiters, at_eof, conn_at_eof, suspended>>
histVars == <<est_changes, winner, late, events, close_log, send_log, written>>
rhistVars == <<net_in, eof_seen, requests, deliveries, next_waiter, dgrams_in>>
selVars == <<transport_properties, available_protocols, sorted_candidates>>
extVars == <<remote_info, race_candidate_set, handle_start, listener,
             handler_transport, remotes, peer_dgrams>>
vars == <<connVars, sessVars, recvVars, loopq, histVars, rhistVars, selVars,
          extVars>>

-----------------------------------------------------------------------------
(* Bounds of the model *)

\* resolved remote addresses of one race
MaxAddrs == 2
\* close() calls made by the application
MaxClose == 2
\* send_message() calls made by the application
MaxSend == 2

-----------------------------------------------------------------------------
(* Values *)

\* ConnectionState
ESTABLISHING == "ESTABLISHING"
ESTABLISHED == "ESTABLISHED"
CLOSING == "CLOSING"
CLOSED == "CLOSED"

ConnectionState == {ESTABLISHING, ESTABLISHED, CLOSING, CLOSED}

\* The callback slots of a Connection.
AllCallbacks == {"ready", "initiate_error", "connection_received", "sent",
                 "send_error", "received", "received_partial",
                 "connection_error", "closed"}

\* The ranked protocol lists create_candidates can return over {tcp, udp}.
RankedProtocols == {<<>>, <<"tcp">>, <<"udp">>, <<"tcp", "udp">>, <<"udp", "tcp">>}

\* candidate_set of race():
\* [protocol + (address,) for address in remote_addrs for protocol in protocol_candidates]
\* (with a local endpoint: the same order, for an interface with one address
\* per family).  Only the protocol of a candidate is kept; candidate k is
\* for remote address ((k-1) \div Len(protos)) + 1.
CandidateSet(protos, naddrs) ==
    [k \in 1..(naddrs * Len(protos)) |-> protos[((k - 1) % Len(protos)) + 1]]

Sessions == 1..Len(candidate_set)

proto(s) == candidate_set[s]

\* An entry of the event loop's queue.
Task(kind, s, a, b) == [kind |-> kind, s |-> s, a |-> a, b |-> b]

\* A scheduled callback: name, the session that scheduled it (0: the racer),
\* its argument (a sequence number, or 0) and the Connection state when it
\* was scheduled.
Event(name, s, arg, st) == [name |-> name, by |-> s, arg |-> arg, st |-> st]

\* An engine that calls a callback inside the handler instead of queueing it.
ScheduleCallback_inline(q, name, s, arg) == q

\* `if self.connection.<name>: self.loop.create_task(self.connection.<name>(...))`
ScheduleCallback(q, name, s, arg) ==
    IF name \in callbacks THEN Append(q, Task("cb", s, name, arg)) ELSE q

\* An engine that schedules a callback twice.
LogCallback_twice(ev, name, s, arg, st) ==
    IF name \in callbacks
    THEN Append(Append(ev, Event(name, s, arg, st)), Event(name, s, arg, st))
    ELSE ev

LogCallback(ev, name, s, arg, st) ==
    IF name \in callbacks THEN Append(ev, Event(name, s, arg, st)) ELSE ev

-----------------------------------------------------------------------------
(* Connection.create_candidates: the candidate selector *)

\* properties an application can declare
MaxProperties == 2
\* rows of the protocol table
MaxProtocols == 3

\* PreferenceLevel, the levels create_candidates tests.
REQUIRE == "REQUIRE"
PREFER == "PREFER"
AVOID == "AVOID"
PROHIBIT == "PROHIBIT"

PreferenceLevel == {REQUIRE, PREFER, AVOID, PROHIBIT}

\* The names of the properties and of the table's rows, in declaration order.
PropertyNames == <<"reliable", "ordered", "multistreaming">>
ProtocolNames == <<"tcp", "udp", "sctp", "dccp">>

Properties == {PropertyNames[k] : k \in 1..MaxProperties}

\* transport_properties.properties: a level for each declared property.
PropertySets == UNION {[S -> PreferenceLevel] : S \in SUBSET Properties}

\* get_protocols(): rows of a name and a boolean per property.
ProtocolTables ==
    UNION {{[k \in 1..n |-> [name |-> ProtocolNames[k], flags |-> f[k]]] :
                f \in [1..n -> [Properties -> BOOLEAN]]} : n \in 1..MaxProtocols}

\* `for transport_property in self.transport_properties.properties`: the
\* declared properties in the order of the dict.
PropertyOrder(props) ==
    SelectSeq([k \in 1..MaxProperties |-> PropertyNames[k]],
              LAMBDA p : p \in DOMAIN props)

\* candidate_protocols: `dict([(row["name"], list((0, 0))) for row in ...])`,
\* kept as the sequence of its items in insertion order.
AllCandidates(table) ==
    [k \in DOMAIN table |-> [name |-> table[k].name, prefer |-> 0, avoid |-> 0]]

\* `protocol["name"] in candidate_protocols`
IsCandidate(cands, name) == \E k \in DOMAIN cands : cands[k].name = name

\* `del candidate_protocols[protocol["name"]]`
DelCandidate(cands, name) == SelectSeq(cands, LAMBDA c : c.name # name)

\* `candidate_protocols[protocol["name"]][0] += 1` / `[1] -= 1`
AddScore(cands, name, p, a) ==
    [k \in DOMAIN cands |->
        IF cands[k].name = name
        THEN [cands[k] EXCEPT !.prefer = @ + p, !.avoid = @ + a]
        ELSE cands[k]]

\* A selector that removes for PROHIBIT only.
Removes_prohibit_only(level, flag) == level = PROHIBIT /\ flag

\* The two removal tests: PROHIBIT with the flag True, REQUIRE with it False.
Removes(level, flag) ==
    \/ level = PROHIBIT /\ flag
    \/ level = REQUIRE /\ ~flag

\* The body of the inner loop for one protocol and one property.
VisitProperty(cands, protocol, level, flag) ==
    IF ~IsCandidate(cands, protocol.name) THEN cands
    ELSE IF Removes(level, flag) THEN DelCandidate(cands, protocol.name)
    ELSE IF level = PREFER /\ flag THEN AddScore(cands, protocol.name, 1, 0)
    ELSE IF level = AVOID /\ flag THEN AddScore(cands, protocol.name, 0, -1)
    ELSE cands

\* The inner loop over the properties, for one protocol.
RECURSIVE VisitProperties(_, _, _, _)
VisitProperties(cands, protocol, props, order) ==
    IF order = <<>> THEN cands
    ELSE VisitProperties(
            VisitProperty(cands, protocol, props[Head(order)],
                          protocol.flags[Head(order)]),
            protocol, props, Tail(order))

\* The outer loop over available_protocols.
RECURSIVE VisitProtocols(_, _, _)
VisitProtocols(cands, table, props) ==
    IF table = <<>> THEN cands
    ELSE VisitProtocols(
            VisitProperties(cands, Head(table), props, PropertyOrder(props)),
            Tail(table), props)

\* A sort that compares the prefer score only.
SortsBefore_prefer_only(a, b) == a.prefer > b.prefer

\* key=(prefer, avoid), reverse=True: a sorts before b iff its key is greater.
SortsBefore(a, b) ==
    \/ a.prefer > b.prefer
    \/ a.prefer = b.prefer /\ a.avoid > b.avoid

\* sorted() is stable, also with reverse=True: an item goes behind the
\* items it does not sort before.
RECURSIVE InsertSorted(_, _)
InsertSorted(s, x) ==
    IF s = <<>> THEN <<x>>
    ELSE IF SortsBefore(x, Head(s)) THEN <<x>> \o s
    ELSE <<Head(s)>> \o InsertSorted(Tail(s), x)

RECURSIVE sorted(_, _)
sorted(acc, items) ==
    IF items = <<>> THEN acc
    ELSE sorted(InsertSorted(acc, Head(items)), Tail(items))

\* create_candidates: the items (name, [prefer, avoid]) it returns.
create_candidates(props, table) ==
    sorted(<<>>, VisitProtocols(AllCandidates(table), table, props))

\* The selector before create_candidates is called; the specifications of
\* the race and of the data transfer keep it so.
SelectorIdle ==
    /\ transport_properties = <<>>
    /\ available_protocols = <<>>
    /\ sorted_candidates = [done |-> FALSE, items |-> <<>>]

-----------------------------------------------------------------------------
(* Connection.__init__ and the configuration of one race *)

ConnInit ==
    /\ state = ESTABLISHING
    /\ active = FALSE
    /\ transports = <<>>
    /\ \E protos \in RankedProtocols, n \in 1..MaxAddrs :
          candidate_set = CandidateSet(protos, n)
    /\ security_context \in BOOLEAN
    /\ local_endpoint \in BOOLEAN
    /\ callbacks \in {AllCallbacks, {}}
    /\ rpc = "start"
    /\ ridx = 1
    /\ att = [i \in 1..Len(candidate_set) |-> "new"]
    /\ sock = [i \in 1..Len(candidate_set) |-> "none"]
    /\ transport_set = [i \in 1..Len(candidate_set) |-> FALSE]
    /\ message_count = [i \in 1..Len(candidate_set) |-> 0]
    /\ loopq = <<>>
    /\ est_changes = 0
    /\ winner = 0
    /\ late = {}
    /\ events = <<>>
    /\ close_log = <<>>
    /\ send_log = <<>>
    /\ written = 0

\* TransportLayer.__init__ of the session that send and receive are delegated to.
RecvIdle ==
    /\ recv_buffer = [none |-> TRUE, data |-> <<>>]
    /\ waiters = <<>>
    /\ at_eof = FALSE
    /\ conn_at_eof = FALSE
    /\ suspended = {}
    /\ net_in = 0
    /\ eof_seen = FALSE
    /\ requests = <<>>
    /\ deliveries = <<>>
    /\ next_waiter = 0
    /\ dgrams_in = <<>>

\* race() before it has resolved the remote host name.
ResolverIdle ==
    /\ remote_info = <<>>
    /\ race_candidate_set = [done |-> FALSE, items |-> <<>>]

\* No session has called framer.handle_start.
FramerIdle ==
    handle_start = [i \in 1..Len(candidate_set) |-> [calls |-> 0, pending |-> FALSE, returned |-> FALSE]]

\* No Listener has been started.
ListenerIdle ==
    /\ listener = [pc |-> "idle", idx |-> 1, addrs |-> <<>>, candidates |-> <<>>, up |-> {}]
    /\ handler_transport = "none"
    /\ remotes = <<>>
    /\ peer_dgrams = <<>>

Init == ConnInit /\ RecvIdle /\ SelectorIdle /\ ResolverIdle /\ FramerIdle /\ ListenerIdle

-----------------------------------------------------------------------------
(* Connection.race: the racer *)

\* race(), up to the for loop: the empty candidate set aborts the race with
\* initiate_error; otherwise the candidate set is built.
race_start ==
    /\ rpc = "start"
    /\ active' = TRUE
    /\ IF Len(candidate_set) = 0
       THEN /\ loopq' = ScheduleCallback(loopq, "initiate_error", 0, 0)
            /\ events' = LogCallback(events, "initiate_error", 0, 0, state)
            /\ rpc' = "done"
       ELSE /\ rpc' = "loop"
            /\ UNCHANGED <<loopq, events>>
    /\ UNCHANGED <<state, transports, candidate_set, security_context,
                   local_endpoint, callbacks, ridx>>
    /\ UNCHANGED <<sessVars, recvVars, rhistVars>>
    /\ UNCHANGED <<est_changes, winner, late, close_log, send_log, written>>
    /\ UNCHANGED selVars
    /\ UNCHANGED extVars

\* race() with a host name whose resolution fails: `await
\* self.loop.getaddrinfo(...)` raises socket.gaierror, which nothing in
\* race() catches, so the coroutine ends with the exception.
race_getaddrinfo_fails ==
    /\ rpc = "start"
    /\ Len(candidate_set) > 0
    /\ active' = TRUE
    /\ rpc' = "raised"
    /\ UNCHANGED <<state, transports, candidate_set, security_context,
                   local_endpoint, callbacks, ridx>>
    /\ UNCHANGED <<sessVars, recvVars, loopq, histVars, rhistVars>>
    /\ UNCHANGED selVars
    /\ UNCHANGED extVars

\* `if self.state == ConnectionState.ESTABLISHED: break`
RaceStops(st) == st = ESTABLISHED

\* One iteration of `for candidate in candidate_set`, up to its break, its
\* await of the racing delay, or the end of the loop.
race_iterate ==
    /\ rpc = "loop"
    /\ IF ridx > Len(candidate_set) \/ RaceStops(state)
       THEN /\ rpc' = "done"
            /\ UNCHANGED <<ridx, att, loopq, events>>
       ELSE IF candidate_set[ridx] = "udp"
       THEN \* create_task(create_datagram_endpoint(...)); break
            /\ loopq' = IF local_endpoint THEN loopq
                        ELSE ScheduleCallback(loopq, "initiate_error", 0, 0)
            /\ events' = IF local_endpoint THEN events
                         ELSE LogCallback(events, "initiate_error", 0, 0, state)
            /\ att' = [att EXCEPT ![ridx] = "connecting"]
            /\ rpc' = "done"
            /\ UNCHANGED ridx
       ELSE \* create_task(create_connection(...)); await sleep(RACING_DELAY)
            /\ att' = [att EXCEPT ![ridx] = "connecting"]
            /\ rpc' = "sleep"
            /\ ridx' = ridx + 1
            /\ UNCHANGED <<loopq, events>>
    /\ UNCHANGED <<state, active, transports, candidate_set, security_context,
                   local_endpoint, callbacks>>
    /\ UNCHANGED <<sock, transport_set, message_count>>
    /\ UNCHANGED <<recvVars, rhistVars>>
    /\ UNCHANGED <<est_changes, winner, late, close_log, send_log, written>>
    /\ UNCHANGED selVars
    /\ UNCHANGED extVars

\* A racer that starts its pass over the candidate set again after a delay.
race_wake_retry ==
    /\ rpc = "sleep"
    /\ rpc' = "loop"
    /\ ridx' = 1
    /\ att' = [s \in DOMAIN att |-> IF att[s] = "failed" THEN "connecting" ELSE att[s]]
    /\ UNCHANGED <<state, active, transports, candidate_set, security_context,
                   local_endpoint, callbacks>>
    /\ UNCHANGED <<sock, transport_set, message_count>>
    /\ UNCHANGED <<recvVars, loopq, histVars, rhistVars>>
    /\ UNCHANGED selVars
    /\ UNCHANGED extVars

\* The racing delay ends and race() resumes at the head of the loop.
race_wake ==
    /\ rpc = "sleep"
    /\ rpc' = "loop"
    /\ UNCHANGED <<state, active, transports, candidate_set, security_context,
                   local_endpoint, callbacks, ridx>>
    /\ UNCHANGED <<sessVars, recvVars, loopq, histVars, rhistVars>>
    /\ UNCHANGED selVars
    /\ UNCHANGED extVars

-----------------------------------------------------------------------------
(* The connect tasks of the attempts *)

\* TransportLayer.__init__: `self.connection.transports.append(self)`
TransportLayer_init(ts, s) == Append(ts, s)

\* The socket of attempt i is connected: the protocol factory constructs the
\* session.  Over TLS the session's connection_made is called only when the
\* handshake has completed; otherwise it is scheduled at once.
connect_succeeds(i) ==
    /\ att[i] = "connecting"
    /\ transports' = TransportLayer_init(transports, i)
    /\ sock' = [sock EXCEPT ![i] = "open"]
    /\ IF proto(i) = "tcp" /\ security_context
       THEN /\ att' = [att EXCEPT ![i] = "handshake"]
            /\ UNCHANGED loopq
       ELSE /\ att' = [att EXCEPT ![i] = "connected"]
            /\ loopq' = Append(loopq, Task("connection_made", i, "", 0))
    /\ UNCHANGED <<state, active, candidate_set, security_context,
                   local_endpoint, callbacks, rpc, ridx>>
    /\ late' = IF winner # 0 THEN late \cup {i} ELSE late
    /\ UNCHANGED <<transport_set, message_count>>
    /\ UNCHANGED <<recvVars, rhistVars>>
    /\ UNCHANGED <<est_changes, winner, events, close_log, send_log, written>>
    /\ UNCHANGED selVars
    /\ UNCHANGED extVars

\* A racer that goes on to the next candidate when an attempt has failed.
connect_fails_next(i) ==
    /\ att[i] = "connecting"
    /\ att' = [att EXCEPT ![i] = "failed"]
    /\ rpc' = "loop"
    /\ ridx' = i + 1
    /\ UNCHANGED <<state, active, transports, candidate_set, security_context,
                   local_endpoint, callbacks>>
    /\ UNCHANGED <<sock, transport_set, message_count>>
    /\ UNCHANGED <<recvVars, loopq, histVars, rhistVars>>
    /\ UNCHANGED selVars
    /\ UNCHANGED extVars

\* The connect of attempt i fails (refused, unreachable, bind error): the
\* exception ends its task, which nobody awaits.
connect_fails(i) ==
    /\ att[i] = "connecting"
    /\ att' = [att EXCEPT ![i] = "failed"]
    /\ UNCHANGED <<connVars, sock, transport_set, message_count>>
    /\ UNCHANGED <<recvVars, loopq, histVars, rhistVars>>
    /\ UNCHANGED selVars
    /\ UNCHANGED extVars

\* The TLS handshake of attempt i completes: connection_made is called.
handshake_completes(i) ==
    /\ att[i] = "handshake"
    /\ att' = [att EXCEPT ![i] = "connected"]
    /\ loopq' = Append(loopq, Task("connection_made", i, "", 0))
    /\ UNCHANGED <<connVars, sock, transport_set, message_count>>
    /\ UNCHANGED <<recvVars, histVars, rhistVars>>
    /\ UNCHANGED selVars
    /\ UNCHANGED extVars

\* The TLS handshake of attempt i fails: the loop closes the socket and
\* connection_made is never called.
handshake_fails(i) ==
    /\ att[i] = "handshake"
    /\ att' = [att EXCEPT ![i] = "failed"]
    /\ sock' = [sock EXCEPT ![i] = "closed"]
    /\ UNCHANGED <<connVars, transport_set, message_count>>
    /\ UNCHANGED <<recvVars, loopq, histVars, rhistVars>>
    /\ UNCHANGED selVars
    /\ UNCHANGED extVars

-----------------------------------------------------------------------------
(* asyncio callbacks and tasks of a session *)

HeadIs(kind) == loopq # <<>> /\ Head(loopq).kind = kind

\* `if self.connection.state == ConnectionState.ESTABLISHED: transport.close(); return`
AttemptLost(st) == st = ESTABLISHED

\* TcpTransport.connection_made / UdpTransport.connection_made (same body).
connection_made(s) ==
    IF AttemptLost(state)
    THEN /\ sock' = [sock EXCEPT ![s] = "closed"]
         /\ loopq' = Tail(loopq)
         /\ UNCHANGED <<state, transport_set, events>>
    ELSE IF active = FALSE
    THEN \* passive open; `self.connection_received` is not an attribute of
         \* the session, so with the callback set the handler raises here
         /\ transport_set' = [transport_set EXCEPT ![s] = TRUE]
         /\ state' = ESTABLISHED
         /\ loopq' = Tail(loopq)
         /\ UNCHANGED <<sock, events>>
    ELSE /\ loopq' = Append(Tail(loopq), Task("active_open", s, "", 0))
         /\ UNCHANGED <<state, sock, transport_set, events>>

TcpTransport_connection_made ==
    /\ HeadIs("connection_made")
    /\ proto(Head(loopq).s) = "tcp"
    /\ connection_made(Head(loopq).s)
    /\ est_changes' = est_changes + (IF state = ESTABLISHING /\ state' = ESTABLISHED THEN 1 ELSE 0)
    /\ winner' = IF winner = 0 /\ state' = ESTABLISHED /\ state # ESTABLISHED
                 THEN Head(loopq).s ELSE winner
    /\ UNCHANGED <<active, transports, candidate_set, security_context,
                   local_endpoint, callbacks, rpc, ridx>>
    /\ UNCHANGED <<att, message_count>>
    /\ UNCHANGED <<recvVars, rhistVars, late, close_log, send_log, written>>
    /\ UNCHANGED selVars
    /\ UNCHANGED extVars

UdpTransport_connection_made ==
    /\ HeadIs("connection_made")
    /\ proto(Head(loopq).s) = "udp"
    /\ connection_made(Head(loopq).s)
    /\ est_changes' = est_changes + (IF state = ESTABLISHING /\ state' = ESTABLISHED THEN 1 ELSE 0)
    /\ winner' = IF winner = 0 /\ state' = ESTABLISHED /\ state # ESTABLISHED
                 THEN Head(loopq).s ELSE winner
    /\ UNCHANGED <<active, transports, candidate_set, security_context,
                   local_endpoint, callbacks, rpc, ridx>>
    /\ UNCHANGED <<att, message_count>>
    /\ UNCHANGED <<recvVars, rhistVars, late, close_log, send_log, written>>
    /\ UNCHANGED selVars
    /\ UNCHANGED extVars

\* TcpTransport.active_open / UdpTransport.active_open (connection.pending is
\* empty, so the cancel loop of the UDP variant cancels nothing).
active_open(s) ==
    /\ transport_set' = [transport_set EXCEPT ![s] = TRUE]
    /\ state' = ESTABLISHED
    /\ loopq' = ScheduleCallback(Tail(loopq), "ready", s, 0)
    /\ events' = LogCallback(events, "ready", s, 0, ESTABLISHED)

TcpTransport_active_open ==
    /\ HeadIs("active_open")
    /\ proto(Head(loopq).s) = "tcp"
    /\ active_open(Head(loopq).s)
    /\ est_changes' = est_changes + (IF state = ESTABLISHING THEN 1 ELSE 0)
    /\ winner' = IF winner = 0 THEN Head(loopq).s ELSE winner
    /\ UNCHANGED <<active, transports, candidate_set, security_context,
                   local_endpoint, callbacks, rpc, ridx>>
    /\ UNCHANGED <<att, sock, message_count>>
    /\ UNCHANGED <<recvVars, rhistVars, late, close_log, send_log, written>>
    /\ UNCHANGED selVars
    /\ UNCHANGED extVars

UdpTransport_active_open ==
    /\ HeadIs("active_open")
    /\ proto(Head(loopq).s) = "udp"
    /\ active_open(Head(loopq).s)
    /\ est_changes' = est_changes + (IF state = ESTABLISHING THEN 1 ELSE 0)
    /\ winner' = IF winner = 0 THEN Head(loopq).s ELSE winner
    /\ UNCHANGED <<active, transports, candidate_set, security_context,
                   local_endpoint, callbacks, rpc, ridx>>
    /\ UNCHANGED <<att, sock, message_count>>
    /\ UNCHANGED <<recvVars, rhistVars, late, close_log, send_log, written>>
    /\ UNCHANGED selVars
    /\ UNCHANGED extVars

\* A user callback task runs (what the application does in it is one of the
\* application's calls below).
run_callback ==
    /\ HeadIs("cb")
    /\ loopq' = Tail(loopq)
    /\ UNCHANGED <<connVars, sessVars, recvVars, histVars, rhistVars>>
    /\ UNCHANGED selVars
    /\ UNCHANGED extVars

-----------------------------------------------------------------------------
(* Connection.close and the close of a session *)

\* Sessions whose close can be called whatever their protocol is.
CloseCallable_any(s) == TRUE

\* TcpTransport.close is declared `def close():`, without self: calling it
\* on a session raises TypeError.  UdpTransport.close is a coroutine method.
CloseCallable(s) == proto(s) = "udp"

\* Connection.close(): `self.loop.create_task(self.transports[0].close())`
\* and then `self.state = ConnectionState.CLOSING`.  multicast_open is False.
\* An exception raised by the first statement leaves the state as it was.
close ==
    /\ Len(close_log) < MaxClose
    /\ IF transports = <<>>
       THEN /\ close_log' = Append(close_log,
                   [pre |-> state, raised |-> "IndexError", post |-> state, s |-> 0])
            /\ UNCHANGED <<state, loopq>>
       ELSE IF ~CloseCallable(transports[1])
       THEN /\ close_log' = Append(close_log,
                   [pre |-> state, raised |-> "TypeError", post |-> state,
                    s |-> transports[1]])
            /\ UNCHANGED <<state, loopq>>
       ELSE /\ loopq' = Append(loopq, Task("close", transports[1], "", 0))
            /\ state' = CLOSING
            /\ close_log' = Append(close_log,
                   [pre |-> state, raised |-> "", post |-> CLOSING,
                    s |-> transports[1]])
    /\ UNCHANGED <<active, transports, candidate_set, security_context,
                   local_endpoint, callbacks, rpc, ridx>>
    /\ UNCHANGED <<sessVars, recvVars, rhistVars>>
    /\ UNCHANGED <<est_changes, winner, late, events, send_log, written>>
    /\ UNCHANGED selVars
    /\ UNCHANGED extVars

\* A close that puts the Connection back at the start of its lifecycle.
UdpCloseState_restart == ESTABLISHING

\* The state UdpTransport.close leaves the Connection in.
UdpCloseState == CLOSED

\* UdpTransport.close(): `self.transport.close()` raises AttributeError when
\* active_open has not assigned self.transport yet; the task then ends
\* without touching the Connection.
UdpTransport_close ==
    /\ HeadIs("close")
    /\ LET s == Head(loopq).s IN
       IF transport_set[s]
       THEN /\ sock' = [sock EXCEPT ![s] = "closed"]
            /\ state' = UdpCloseState
            /\ loopq' = ScheduleCallback(Tail(loopq), "closed", s, 0)
            /\ events' = LogCallback(events, "closed", s, 0, UdpCloseState)
       ELSE /\ loopq' = Tail(loopq)
            /\ UNCHANGED <<sock, state, events>>
    /\ UNCHANGED <<active, transports, candidate_set, security_context,
                   local_endpoint, callbacks, rpc, ridx>>
    /\ UNCHANGED <<att, transport_set, message_count>>
    /\ UNCHANGED <<recvVars, rhistVars>>
    /\ UNCHANGED <<est_changes, winner, late, close_log, send_log, written>>
    /\ UNCHANGED selVars
    /\ UNCHANGED extVars

-----------------------------------------------------------------------------
(* Connection.send_message, TransportLayer.send and the write tasks *)

\* The kinds of data an application passes to send_message.
DataKinds == {"str", "bytes"}

\* Connection.send_message: `if isinstance(data, str): data = data.encode()`
send_message_data(data) == IF data = "str" THEN "bytes" ELSE data

\* `data.encode()` in write(): defined on str only.
CanEncode(data) == data = "str"

\* TransportLayer.send: on a Connection that is not ESTABLISHED the test
\* `if self.send_error:` reads an attribute no session has and raises
\* AttributeError.  ret = 0 stands for "no value returned".
send_message(data) ==
    /\ Len(send_log) < MaxSend
    /\ IF transports = <<>>
       THEN /\ send_log' = Append(send_log,
                   [s |-> 0, n |-> 0, pre |-> state, raised |-> "IndexError",
                    ret |-> 0])
            /\ UNCHANGED <<message_count, loopq>>
       ELSE LET s == transports[1]
                mc == message_count[s] + 1
            IN  /\ message_count' = [message_count EXCEPT ![s] = mc]
                /\ IF state # ESTABLISHED
                   THEN /\ send_log' = Append(send_log,
                               [s |-> s, n |-> mc, pre |-> state,
                                raised |-> "AttributeError", ret |-> 0])
                        /\ UNCHANGED loopq
                   ELSE /\ loopq' = Append(loopq,
                               Task("write", s, send_message_data(data), mc))
                        /\ send_log' = Append(send_log,
                               [s |-> s, n |-> mc, pre |-> state, raised |-> "",
                                ret |-> mc])
    /\ UNCHANGED <<connVars, att, sock, transport_set>>
    /\ UNCHANGED <<recvVars, rhistVars>>
    /\ UNCHANGED <<est_changes, winner, late, events, close_log, written>>
    /\ UNCHANGED selVars
    /\ UNCHANGED extVars

\* TcpTransport.write: a failing write reaches `if self.send_error:`, which
\* raises AttributeError, so no event is scheduled for it.
TcpTransport_write ==
    /\ HeadIs("write")
    /\ proto(Head(loopq).s) = "tcp"
    /\ LET s == Head(loopq).s
           data == Head(loopq).a
       IN  IF CanEncode(data) /\ transport_set[s]
           THEN /\ written' = written + 1
                /\ loopq' = ScheduleCallback(Tail(loopq), "sent", s, message_count[s])
                /\ events' = LogCallback(events, "sent", s, message_count[s], state)
           ELSE /\ loopq' = Tail(loopq)
                /\ UNCHANGED <<written, events>>
    /\ UNCHANGED <<connVars, sessVars, recvVars, rhistVars>>
    /\ UNCHANGED <<est_changes, winner, late, close_log, send_log>>
    /\ UNCHANGED selVars
    /\ UNCHANGED extVars

\* UdpTransport.write (active open: `self.transport.sendto(data.encode())`).
UdpTransport_write ==
    /\ HeadIs("write")
    /\ proto(Head(loopq).s) = "udp"
    /\ LET s == Head(loopq).s
           data == Head(loopq).a
       IN  IF CanEncode(data) /\ transport_set[s]
           THEN /\ written' = written + 1
                /\ loopq' = ScheduleCallback(Tail(loopq), "sent", s, message_count[s])
                /\ events' = LogCallback(events, "sent", s, message_count[s], state)
           ELSE /\ loopq' = ScheduleCallback(Tail(loopq), "send_error", s, message_count[s])
                /\ events' = LogCallback(events, "send_error", s, message_count[s], state)
                /\ UNCHANGED written
    /\ UNCHANGED <<connVars, sessVars, recvVars, rhistVars>>
    /\ UNCHANGED <<est_changes, winner, late, close_log, send_log>>
    /\ UNCHANGED selVars
    /\ UNCHANGED extVars

-----------------------------------------------------------------------------
(* The Connection from construction to close *)

Lifecycle ==
    \/ race_start
    \/ race_getaddrinfo_fails
    \/ race_iterate
    \/ race_wake
    \/ \E i \in Sessions : connect_succeeds(i)
    \/ \E i \in Sessions : connect_fails(i)
    \/ \E i \in Sessions : handshake_completes(i)
    \/ \E i \in Sessions : handshake_fails(i)
    \/ TcpTransport_connection_made
    \/ UdpTransport_connection_made
    \/ TcpTransport_active_open
    \/ UdpTransport_active_open
    \/ run_callback
    \/ close
    \/ UdpTransport_close

Next == Lifecycle

Spec == Init /\ [][Next]_vars

-----------------------------------------------------------------------------
(* The Connection of a Preconnection that has a framer *)

\* active_open up to `await self.connection.framer.handle_start(self.connection)`:
\* the transport is stored, the state is ESTABLISHED and the task waits for
\* the framer.
active_open_framed(s) ==
    /\ transport_set' = [transport_set EXCEPT ![s] = TRUE]
    /\ state' = ESTABLISHED
    /\ handle_start' = [handle_start EXCEPT ![s] =
           [calls |-> @.calls + 1, pending |-> TRUE, returned |-> FALSE]]
    /\ loopq' = Tail(loopq)

TcpTransport_active_open_framed ==
    /\ HeadIs("active_open")
    /\ proto(Head(loopq).s) = "tcp"
    /\ active_open_framed(Head(loopq).s)
    /\ est_changes' = est_changes + (IF state = ESTABLISHING THEN 1 ELSE 0)
    /\ winner' = IF winner = 0 THEN Head(loopq).s ELSE winner
    /\ UNCHANGED <<active, transports, candidate_set, security_context,
                   local_endpoint, callbacks, rpc, ridx>>
    /\ UNCHANGED <<att, sock, message_count>>
    /\ UNCHANGED <<recvVars, rhistVars, events, late, close_log, send_log, written>>
    /\ UNCHANGED selVars
    /\ UNCHANGED <<remote_info, race_candidate_set, listener, handler_transport,
                   remotes, peer_dgrams>>

UdpTransport_active_open_framed ==
    /\ HeadIs("active_open")
    /\ proto(Head(loopq).s) = "udp"
    /\ active_open_framed(Head(loopq).s)
    /\ est_changes' = est_changes + (IF state = ESTABLISHING THEN 1 ELSE 0)
    /\ winner' = IF winner = 0 THEN Head(loopq).s ELSE winner
    /\ UNCHANGED <<active, transports, candidate_set, security_context,
                   local_endpoint, callbacks, rpc, ridx>>
    /\ UNCHANGED <<att, sock, message_count>>
    /\ UNCHANGED <<recvVars, rhistVars, events, late, close_log, send_log, written>>
    /\ UNCHANGED selVars
    /\ UNCHANGED <<remote_info, race_candidate_set, listener, handler_transport,
                   remotes, peer_dgrams>>

\* The framer's handle_start returns and active_open goes on:
\* `if self.connection.ready: create_task(self.connection.ready(self.connection))`.
handle_start_returns(s) ==
    /\ handle_start[s].pending
    /\ handle_start' = [handle_start EXCEPT ![s].pending = FALSE, ![s].returned = TRUE]
    /\ loopq' = ScheduleCallback(loopq, "ready", s, 0)
    /\ events' = LogCallback(events, "ready", s, 0, state)
    /\ UNCHANGED <<connVars, sessVars, recvVars, rhistVars>>
    /\ UNCHANGED <<est_changes, winner, late, close_log, send_log, written>>
    /\ UNCHANGED selVars
    /\ UNCHANGED <<remote_info, race_candidate_set, listener, handler_transport,
                   remotes, peer_dgrams>>

\* An active_open that catches the framer's exception and goes on to ready.
handle_start_raises_ready(s) ==
    /\ handle_start[s].pending
    /\ handle_start' = [handle_start EXCEPT ![s].pending = FALSE]
    /\ loopq' = ScheduleCallback(loopq, "ready", s, 0)
    /\ events' = LogCallback(events, "ready", s, 0, state)
    /\ UNCHANGED <<connVars, sessVars, recvVars, rhistVars>>
    /\ UNCHANGED <<est_changes, winner, late, close_log, send_log, written>>
    /\ UNCHANGED selVars
    /\ UNCHANGED <<remote_info, race_candidate_set, listener, handler_transport,
                   remotes, peer_dgrams>>

\* The framer's handle_start raises: the exception ends the active_open task.
handle_start_raises(s) ==
    /\ handle_start[s].pending
    /\ handle_start' = [handle_start EXCEPT ![s].pending = FALSE]
    /\ UNCHANGED <<connVars, sessVars, recvVars, loopq, histVars, rhistVars>>
    /\ UNCHANGED selVars
    /\ UNCHANGED <<remote_info, race_candidate_set, listener, handler_transport,
                   remotes, peer_dgrams>>

FramerNext ==
    \/ race_start
    \/ race_getaddrinfo_fails
    \/ race_iterate
    \/ race_wake
    \/ \E i \in Sessions : connect_succeeds(i)
    \/ \E i \in Sessions : connect_fails(i)
    \/ \E i \in Sessions : handshake_completes(i)
    \/ \E i \in Sessions : handshake_fails(i)
    \/ TcpTransport_connection_made
    \/ UdpTransport_connection_made
    \/ TcpTransport_active_open_framed
    \/ UdpTransport_active_open_framed
    \/ \E i \in Sessions : handle_start_returns(i)
    \/ \E i \in Sessions : handle_start_raises(i)
    \/ run_callback
    \/ close
    \/ UdpTransport_close

FramerSpec == Init /\ [][FramerNext]_vars

-----------------------------------------------------------------------------
(* Sending on the Connection of a race with a single candidate *)

SendInit ==
    /\ Init
    /\ Len(candidate_set) = 1

SendNext ==
    \/ Lifecycle
    \/ \E data \in DataKinds : send_message(data)
    \/ TcpTransport_write
    \/ UdpTransport_write

SendSpec == SendInit /\ [][SendNext]_vars

-----------------------------------------------------------------------------
(* Receiving on a stream session (TcpTransport) *)

\* bytes read from the network in one run
MaxBytes == 4
\* bytes of one network read
MaxChunk == 3
\* receive() calls made by the application
MaxReq == 2

\* float("inf"), the default min_incomplete_length of Connection.receive
inf == 1000

\* The arguments an application passes to receive; max_length -1 is "unset".
MinLengths == {1, 3, inf}
MaxLengths == {-1, 2}

\* The stream is the byte sequence 1, 2, 3, ...: byte k is the k-th byte read.
Bytes(from, to) == [k \in 1..(to - from + 1) |-> from + k - 1]

BufLen(buf) == IF buf.none THEN 0 ELSE Len(buf.data)

\* A read that waits for some data but not for min_incomplete_length bytes.
ReadBlocked_any_data(buf, min) == buf.none

\* TcpTransport.read:
\* `while self.recv_buffer is None or (len(self.recv_buffer) < min_incomplete_length)`
ReadBlocked(buf, min) == buf.none \/ Len(buf.data) < min

\* A read that hands over the whole buffer whatever max_length is.
ReadData_whole(buf, max) == buf.data

\* A read that clears the buffer whatever max_length is.
ReadRest_clear(buf, max) == [none |-> TRUE, data |-> <<>>]

\* TcpTransport.read: the data handed to the request ...
ReadData(buf, max) ==
    IF max = -1 \/ Len(buf.data) <= max THEN buf.data
    ELSE SubSeq(buf.data, 1, max)

\* ... and the buffer it leaves.
ReadRest(buf, max) ==
    IF max = -1 \/ Len(buf.data) <= max THEN [none |-> TRUE, data |-> <<>>]
    ELSE [none |-> FALSE, data |-> SubSeq(buf.data, max + 1, Len(buf.data))]

\* TcpTransport.read: `if self.at_eof:` received, else received_partial.
ReadCallback(eof) == IF eof THEN "received" ELSE "received_partial"

\* Connection.receive -> TransportLayer.receive: the read is a new task.
receive(min, max) ==
    /\ Len(requests) < MaxReq
    /\ transports # <<>>
    /\ requests' = Append(requests, [min |-> min, max |-> max, waits |-> 0])
    /\ loopq' = Append(loopq, Task("read", transports[1], "", Len(requests) + 1))
    /\ UNCHANGED <<connVars, sessVars, recvVars, histVars>>
    /\ UNCHANGED <<net_in, eof_seen, deliveries, next_waiter, dgrams_in>>
    /\ UNCHANGED selVars
    /\ UNCHANGED extVars

\* TcpTransport.read from the head of its while loop, for request r, with
\* ws the waiters and q the rest of the loop's queue: either it suspends in
\* await_data on a new future, or it takes data and schedules the callback.
TcpTransport_read_body(r, ws, q) ==
    LET min == requests[r].min
        max == requests[r].max
    IN  IF ReadBlocked(recv_buffer, min)
        THEN /\ next_waiter' = next_waiter + 1
             /\ waiters' = Append(ws, [w |-> next_waiter + 1, done |-> FALSE])
             /\ suspended' = suspended \cup {[r |-> r, w |-> next_waiter + 1]}
             /\ requests' = [requests EXCEPT ![r].waits = @ + 1]
             /\ loopq' = q
             /\ UNCHANGED <<recv_buffer, deliveries, events>>
        ELSE /\ recv_buffer' = ReadRest(recv_buffer, max)
             /\ deliveries' = Append(deliveries,
                    [r |-> r, data |-> ReadData(recv_buffer, max),
                     before |-> recv_buffer.data,
                     rest |-> ReadRest(recv_buffer, max),
                     buflen |-> BufLen(recv_buffer), eof |-> eof_seen,
                     via |-> ReadCallback(at_eof)])
             /\ loopq' = ScheduleCallback(q, ReadCallback(at_eof), transports[1], r)
             /\ events' = LogCallback(events, ReadCallback(at_eof), transports[1], r, state)
             /\ waiters' = ws
             /\ UNCHANGED <<suspended, requests, next_waiter>>

\* The read task of a request runs for the first time.
TcpTransport_read ==
    /\ HeadIs("read")
    /\ proto(Head(loopq).s) = "tcp"
    /\ TcpTransport_read_body(Head(loopq).b, waiters, Tail(loopq))
    /\ UNCHANGED <<connVars, sessVars, at_eof, conn_at_eof>>
    /\ UNCHANGED <<est_changes, winner, late, close_log, send_log, written>>
    /\ UNCHANGED <<net_in, eof_seen, dgrams_in>>
    /\ UNCHANGED selVars
    /\ UNCHANGED extVars

\* A read task woken in await_data resumes: `finally: del self.waiters[0]`,
\* then the while loop of read tests its condition again.
TcpTransport_read_resume ==
    /\ HeadIs("resume")
    /\ proto(Head(loopq).s) = "tcp"
    /\ TcpTransport_read_body(Head(loopq).b, Tail(waiters), Tail(loopq))
    /\ UNCHANGED <<connVars, sessVars, at_eof, conn_at_eof>>
    /\ UNCHANGED <<est_changes, winner, late, close_log, send_log, written>>
    /\ UNCHANGED <<net_in, eof_seen, dgrams_in>>
    /\ UNCHANGED selVars
    /\ UNCHANGED extVars

\* Index of the first waiter that is not done, 0 if there is none.
FirstPending(ws) ==
    IF \E k \in 1..Len(ws) : ~ws[k].done
    THEN CHOOSE k \in 1..Len(ws) : ~ws[k].done /\ \A j \in 1..(k - 1) : ws[j].done
    ELSE 0

\* TcpTransport.data_received without a framer (open_receives is 0): the
\* data is appended to the buffer and the first waiter that is not done gets
\* its result, which schedules the wake-up of the task awaiting it.
TcpTransport_data_received(n) ==
    /\ ~eof_seen
    /\ transports # <<>>
    /\ net_in + n <= MaxBytes
    /\ net_in' = net_in + n
    /\ recv_buffer' = [none |-> FALSE,
                       data |-> (IF recv_buffer.none THEN <<>> ELSE recv_buffer.data)
                                \o Bytes(net_in + 1, net_in + n)]
    /\ LET k == FirstPending(waiters) IN
       IF k = 0
       THEN UNCHANGED <<waiters, suspended, loopq>>
       ELSE LET t == CHOOSE t \in suspended : t.w = waiters[k].w IN
            /\ waiters' = [waiters EXCEPT ![k].done = TRUE]
            /\ suspended' = suspended \ {t}
            /\ loopq' = Append(loopq, Task("resume", transports[1], "", t.r))
    /\ UNCHANGED <<connVars, sessVars, at_eof, conn_at_eof, histVars>>
    /\ UNCHANGED <<eof_seen, requests, deliveries, next_waiter, dgrams_in>>
    /\ UNCHANGED selVars
    /\ UNCHANGED extVars

\* TcpTransport.eof_received: `self.connection.at_eof = True`.
TcpTransport_eof_received ==
    /\ ~eof_seen
    /\ transports # <<>>
    /\ eof_seen' = TRUE
    /\ conn_at_eof' = TRUE
    /\ UNCHANGED <<connVars, sessVars, recv_buffer, waiters, at_eof, suspended>>
    /\ UNCHANGED <<loopq, histVars>>
    /\ UNCHANGED <<net_in, requests, deliveries, next_waiter, dgrams_in>>
    /\ UNCHANGED selVars
    /\ UNCHANGED extVars

\* A Connection whose race had the single candidate tcp: the attempt won,
\* the ready callback has run and the racer has left its loop.
StreamInit ==
    /\ state = ESTABLISHED
    /\ active = TRUE
    /\ transports = <<1>>
    /\ candidate_set = <<"tcp">>
    /\ security_context = FALSE
    /\ local_endpoint = FALSE
    /\ callbacks \in {AllCallbacks, {}}
    /\ rpc = "done"
    /\ ridx = 2
    /\ att = <<"connected">>
    /\ sock = <<"open">>
    /\ transport_set = <<TRUE>>
    /\ message_count = <<0>>
    /\ loopq = <<>>
    /\ est_changes = 1
    /\ winner = 1
    /\ late = {}
    /\ events = IF "ready" \in callbacks
                THEN <<[name |-> "ready", by |-> 1, arg |-> 0, st |-> ESTABLISHED]>>
                ELSE <<>>
    /\ close_log = <<>>
    /\ send_log = <<>>
    /\ written = 0
    /\ RecvIdle
    /\ SelectorIdle
    /\ ResolverIdle
    /\ FramerIdle
    /\ ListenerIdle

StreamNext ==
    \/ \E min \in MinLengths, max \in MaxLengths : receive(min, max)
    \/ TcpTransport_read
    \/ TcpTransport_read_resume
    \/ \E n \in 1..MaxChunk : TcpTransport_data_received(n)
    \/ TcpTransport_eof_received
    \/ run_callback

StreamSpec == StreamInit /\ [][StreamNext]_vars

-----------------------------------------------------------------------------
(* Receiving on a datagram session (UdpTransport) *)

\* datagrams received in one run
MaxDgrams == 3

\* A read that reports a datagram as an incomplete message.
UdpReadCallback_partial == "received_partial"

\* UdpTransport.read: `if self.connection.received:`.
UdpReadCallback == "received"

\* A read that takes the newest datagram.
UdpReadData_newest(buf) == buf.data[Len(buf.data)]

\* UdpTransport.read: `self.recv_buffer[0]` / `self.recv_buffer.pop(0)` ...
UdpReadData(buf) == buf.data[1]

\* ... and the buffer it leaves: None after the only datagram was taken.
UdpReadRest(buf) ==
    IF Len(buf.data) = 1 THEN [none |-> TRUE, data |-> <<>>]
    ELSE [none |-> FALSE, data |-> Tail(buf.data)]

\* UdpTransport.read after its `if self.recv_buffer is None: await ...`, for
\* request r, with ws the waiters and q the rest of the loop's queue.
\* len(None) raises TypeError and ends the task.
UdpTransport_read_take(r, ws, q) ==
    /\ waiters' = ws
    /\ IF recv_buffer.none
       THEN /\ loopq' = q
            /\ UNCHANGED <<recv_buffer, deliveries, events>>
       ELSE /\ recv_buffer' = UdpReadRest(recv_buffer)
            /\ deliveries' = Append(deliveries,
                   [r |-> r, data |-> UdpReadData(recv_buffer),
                    via |-> UdpReadCallback])
            /\ loopq' = ScheduleCallback(q, UdpReadCallback, transports[1], r)
            /\ events' = LogCallback(events, UdpReadCallback, transports[1], r, state)

\* The read task of a request runs for the first time: it suspends in
\* await_data if recv_buffer is None.
UdpTransport_read ==
    /\ HeadIs("read")
    /\ proto(Head(loopq).s) = "udp"
    /\ IF recv_buffer.none
       THEN /\ next_waiter' = next_waiter + 1
            /\ waiters' = Append(waiters, [w |-> next_waiter + 1, done |-> FALSE])
            /\ suspended' = suspended \cup {[r |-> Head(loopq).b, w |-> next_waiter + 1]}
            /\ requests' = [requests EXCEPT ![Head(loopq).b].waits = @ + 1]
            /\ loopq' = Tail(loopq)
            /\ UNCHANGED <<recv_buffer, deliveries, events>>
       ELSE /\ UdpTransport_read_take(Head(loopq).b, waiters, Tail(loopq))
            /\ UNCHANGED <<suspended, requests, next_waiter>>
    /\ UNCHANGED <<connVars, sessVars, at_eof, conn_at_eof>>
    /\ UNCHANGED <<est_changes, winner, late, close_log, send_log, written>>
    /\ UNCHANGED <<net_in, eof_seen, dgrams_in>>
    /\ UNCHANGED selVars
    /\ UNCHANGED extVars

\* A read task woken in await_data resumes: `finally: del self.waiters[0]`,
\* then it takes a datagram without testing the buffer again.
UdpTransport_read_resume ==
    /\ HeadIs("resume")
    /\ proto(Head(loopq).s) = "udp"
    /\ UdpTransport_read_take(Head(loopq).b, Tail(waiters), Tail(loopq))
    /\ UNCHANGED <<connVars, sessVars, at_eof, conn_at_eof, suspended>>
    /\ UNCHANGED <<est_changes, winner, late, close_log, send_log, written>>
    /\ UNCHANGED <<net_in, eof_seen, requests, next_waiter, dgrams_in>>
    /\ UNCHANGED selVars
    /\ UNCHANGED extVars

\* UdpTransport.datagram_received without a framer (open_receives is 0): the
\* datagram, of n bytes, is appended to the list recv_buffer and the first
\* waiter that is not done gets its result.
UdpTransport_datagram_received(n) ==
    /\ transports # <<>>
    /\ Len(dgrams_in) < MaxDgrams
    /\ net_in' = net_in + n
    /\ dgrams_in' = Append(dgrams_in, Bytes(net_in + 1, net_in + n))
    /\ recv_buffer' = [none |-> FALSE,
                       data |-> Append(IF recv_buffer.none THEN <<>> ELSE recv_buffer.data,
                                       Bytes(net_in + 1, net_in + n))]
    /\ LET k == FirstPending(waiters) IN
       IF k = 0
       THEN UNCHANGED <<waiters, suspended, loopq>>
       ELSE LET t == CHOOSE t \in suspended : t.w = waiters[k].w IN
            /\ waiters' = [waiters EXCEPT ![k].done = TRUE]
            /\ suspended' = suspended \ {t}
            /\ loopq' = Append(loopq, Task("resume", transports[1], "", t.r))
    /\ UNCHANGED <<connVars, sessVars, at_eof, conn_at_eof, histVars>>
    /\ UNCHANGED <<eof_seen, requests, deliveries, next_waiter>>
    /\ UNCHANGED selVars
    /\ UNCHANGED extVars

\* A Connection whose race had the single candidate udp, with a local
\* endpoint: the attempt won and the ready callback has run.
DatagramInit ==
    /\ state = ESTABLISHED
    /\ active = TRUE
    /\ transports = <<1>>
    /\ candidate_set = <<"udp">>
    /\ security_context = FALSE
    /\ local_endpoint = TRUE
    /\ callbacks \in {AllCallbacks, {}}
    /\ rpc = "done"
    /\ ridx = 1
    /\ att = <<"connected">>
    /\ sock = <<"open">>
    /\ transport_set = <<TRUE>>
    /\ message_count = <<0>>
    /\ loopq = <<>>
    /\ est_changes = 1
    /\ winner = 1
    /\ late = {}
    /\ events = IF "ready" \in callbacks
                THEN <<[name |-> "ready", by |-> 1, arg |-> 0, st |-> ESTABLISHED]>>
                ELSE <<>>
    /\ close_log = <<>>
    /\ send_log = <<>>
    /\ written = 0
    /\ RecvIdle
    /\ SelectorIdle
    /\ ResolverIdle
    /\ FramerIdle
    /\ ListenerIdle

DatagramNext ==
    \/ \E min \in MinLengths, max \in MaxLengths : receive(min, max)
    \/ UdpTransport_read
    \/ UdpTransport_read_resume
    \/ \E n \in 1..MaxChunk : UdpTransport_datagram_received(n)
    \/ run_callback

DatagramSpec == DatagramInit /\ [][DatagramNext]_vars

-----------------------------------------------------------------------------
(* A datagram session from established to closed *)

\* The loop calls datagram_received only while the session's socket is open.
UdpTransport_datagram_received_open(n) ==
    /\ transports # <<>>
    /\ sock[transports[1]] = "open"
    /\ UdpTransport_datagram_received(n)

DatagramCloseNext ==
    \/ \E min \in MinLengths, max \in MaxLengths : receive(min, max)
    \/ UdpTransport_read
    \/ UdpTransport_read_resume
    \/ \E n \in 1..MaxChunk : UdpTransport_datagram_received_open(n)
    \/ close
    \/ UdpTransport_close
    \/ run_callback

DatagramCloseSpec == DatagramInit /\ [][DatagramCloseNext]_vars

-----------------------------------------------------------------------------
(* The selector over every bounded property set and protocol table *)

RankInit ==
    /\ ConnInit
    /\ candidate_set = <<>>
    /\ security_context = FALSE
    /\ local_endpoint = FALSE
    /\ callbacks = {}
    /\ RecvIdle
    /\ transport_properties \in PropertySets
    /\ available_protocols \in ProtocolTables
    /\ sorted_candidates = [done |-> FALSE, items |-> <<>>]
    /\ ResolverIdle
    /\ FramerIdle
    /\ ListenerIdle

\* `protocol_candidates = self.create_candidates()`
Connection_create_candidates ==
    /\ ~sorted_candidates.done
    /\ sorted_candidates' =
          [done |-> TRUE,
           items |-> create_candidates(transport_properties, available_protocols)]
    /\ UNCHANGED <<transport_properties, available_protocols>>
    /\ UNCHANGED extVars
    /\ UNCHANGED <<connVars, sessVars, recvVars, loopq, histVars, rhistVars>>

RankNext == Connection_create_candidates

RankSpec == RankInit /\ [][RankNext]_vars

-----------------------------------------------------------------------------
(* race(): from the resolved addresses to the candidate set *)

\* entries of one getaddrinfo result
MaxInfo == 3

AF_INET6 == "AF_INET6"
AF_INET == "AF_INET"

\* The entries getaddrinfo can return: two addresses of each family.
AddrInfos ==
    {[family |-> AF_INET6, addr |-> "::1"], [family |-> AF_INET6, addr |-> "::2"],
     [family |-> AF_INET, addr |-> "10.0.0.1"], [family |-> AF_INET, addr |-> "10.0.0.2"]}

RemoteInfos == UNION {[1..n -> AddrInfos] : n \in 0..MaxInfo}

\* `set([info[4][0] for info in remote_info if info[0] == family])`
AddressSet(info, family) ==
    {info[k].addr : k \in {j \in DOMAIN info : info[j].family = family}}

\* `list(set(...))`: the elements of the set, each once, in any order.
ListsOfSet(S) ==
    {q \in [1..Cardinality(S) -> S] : \A i, j \in DOMAIN q : i # j => q[i] # q[j]}

\* A candidate set built protocol by protocol.
CrossProduct_protocol_major(addrs, protos) ==
    [k \in 1..(Len(addrs) * Len(protos)) |->
        [protocol |-> protos[((k - 1) \div Len(addrs)) + 1].name,
         address |-> addrs[((k - 1) % Len(addrs)) + 1]]]

\* `[protocol + (address,) for address in remote_addrs
\*                          for protocol in protocol_candidates]`
CrossProduct(addrs, protos) ==
    [k \in 1..(Len(addrs) * Len(protos)) |->
        [protocol |-> protos[((k - 1) % Len(protos)) + 1].name,
         address |-> addrs[((k - 1) \div Len(protos)) + 1]]]

\* The items create_candidates returns for a ranked list of protocol names.
ItemsOf(names) == [k \in DOMAIN names |-> [name |-> names[k], prefer |-> 0, avoid |-> 0]]

\* race() with a host name and no local endpoint, after create_candidates
\* returned a non-empty list and getaddrinfo returned remote_info.
CandidateInit ==
    /\ ConnInit
    /\ candidate_set = <<>>
    /\ security_context = FALSE
    /\ local_endpoint = FALSE
    /\ callbacks = {}
    /\ RecvIdle
    /\ transport_properties = <<>>
    /\ available_protocols = <<>>
    /\ \E names \in RankedProtocols \ {<<>>} :
          sorted_candidates = [done |-> TRUE, items |-> ItemsOf(names)]
    /\ remote_info \in RemoteInfos
    /\ race_candidate_set = [done |-> FALSE, items |-> <<>>]
    /\ FramerIdle
    /\ ListenerIdle

\* race(): remote_addrs = remote_addrs_v6 + remote_addrs_v4 and the
\* candidate set built from it.
race_build_candidate_set ==
    /\ ~race_candidate_set.done
    /\ \E v6 \in ListsOfSet(AddressSet(remote_info, AF_INET6)),
          v4 \in ListsOfSet(AddressSet(remote_info, AF_INET)) :
          race_candidate_set' =
              [done |-> TRUE, items |-> CrossProduct(v6 \o v4, sorted_candidates.items)]
    /\ UNCHANGED <<remote_info, handle_start, listener, handler_transport,
                   remotes, peer_dgrams>>
    /\ UNCHANGED <<connVars, sessVars, recvVars, loopq, histVars, rhistVars>>
    /\ UNCHANGED selVars

CandidateNext == race_build_candidate_set

CandidateSpec == CandidateInit /\ [][CandidateNext]_vars

-----------------------------------------------------------------------------
(* Listener.start_listener *)

\* The callbacks Listener.set_callbacks copies from the Preconnection.
ListenerCallbacks == {"ready", "initiate_error", "connection_received",
                      "listen_error", "stopped"}

\* The local addresses start_listener collects in all_addrs.
LocalAddrs == {<<>>, <<"::1">>, <<"::1", "10.0.0.1">>}

\* A Connection object that nothing has been called on, with callbacks cbs.
Untouched(cbs) ==
    /\ state = ESTABLISHING
    /\ active = FALSE
    /\ transports = <<>>
    /\ candidate_set = <<>>
    /\ security_context = FALSE
    /\ local_endpoint = TRUE
    /\ callbacks = cbs
    /\ rpc = "start"
    /\ ridx = 1
    /\ att = <<>>
    /\ sock = <<>>
    /\ transport_set = <<>>
    /\ message_count = <<>>
    /\ loopq = <<>>
    /\ est_changes = 0
    /\ winner = 0
    /\ late = {}
    /\ events = <<>>
    /\ close_log = <<>>
    /\ send_log = <<>>
    /\ written = 0
    /\ RecvIdle
    /\ transport_properties = <<>>
    /\ available_protocols = <<>>
    /\ ResolverIdle
    /\ FramerIdle

\* Listener.__init__, with the list create_candidates will return and the
\* addresses the local endpoint will give.
ListenInit ==
    /\ \E cbs \in {ListenerCallbacks, {}} : Untouched(cbs)
    /\ \E names \in RankedProtocols :
          sorted_candidates = [done |-> TRUE, items |-> ItemsOf(names)]
    /\ \E addrs \in LocalAddrs :
          listener = [pc |-> "idle", idx |-> 1, addrs |-> addrs,
                      candidates |-> <<>>, up |-> {}]
    /\ handler_transport = "none"
    /\ remotes = <<>>
    /\ peer_dgrams = <<>>

\* What no step of start_listener changes.
ListenerFrame ==
    /\ UNCHANGED <<connVars, sessVars, recvVars, rhistVars>>
    /\ UNCHANGED <<est_changes, winner, late, close_log, send_log, written>>
    /\ UNCHANGED selVars
    /\ UNCHANGED <<remote_info, race_candidate_set, handle_start,
                   handler_transport, remotes, peer_dgrams>>

\* start_listener up to the for loop: `if not protocol_candidates:` fires
\* listen_error and returns; otherwise candidate_set is built.
start_listener ==
    /\ listener.pc = "idle"
    /\ IF sorted_candidates.items = <<>>
       THEN /\ listener' = [listener EXCEPT !.pc = "done"]
            /\ loopq' = ScheduleCallback(loopq, "listen_error", 0, 0)
            /\ events' = LogCallback(events, "listen_error", 0, 0, state)
       ELSE /\ listener' = [listener EXCEPT
                   !.candidates = CrossProduct(listener.addrs, sorted_candidates.items),
                   !.pc = IF listener.addrs = <<>> THEN "done" ELSE "loop"]
            /\ UNCHANGED <<loopq, events>>
    /\ ListenerFrame

\* The position of the for loop after the candidate at idx.
ListenerAdvance(l) ==
    [l EXCEPT !.idx = @ + 1,
              !.pc = IF l.idx + 1 > Len(l.candidates) THEN "done" ELSE "loop"]

\* One iteration of the for loop: create_datagram_endpoint or create_server
\* returns.
start_listener_bound ==
    /\ listener.pc = "loop"
    /\ listener' = [ListenerAdvance(listener) EXCEPT !.up = @ \cup {listener.idx}]
    /\ UNCHANGED <<loopq, events>>
    /\ ListenerFrame

\* One iteration of the for loop: the body raises; `except Exception` fires
\* listen_error and the loop goes on with the next candidate.
start_listener_raises ==
    /\ listener.pc = "loop"
    /\ listener' = ListenerAdvance(listener)
    /\ loopq' = ScheduleCallback(loopq, "listen_error", 0, 0)
    /\ events' = LogCallback(events, "listen_error", 0, 0, state)
    /\ ListenerFrame

ListenNext ==
    \/ start_listener
    \/ start_listener_bound
    \/ start_listener_raises
    \/ run_callback

ListenSpec == ListenInit /\ [][ListenNext]_vars

-----------------------------------------------------------------------------
(* DatagramHandler: the Connections a datagram listener accepts *)

\* The remote (address, port) pairs datagrams come from.
Peers == {"peerA", "peerB"}

\* The datagrams that have arrived at the listener's socket so far.
Arrived == UNION {{<<p, k>> : k \in DOMAIN peer_dgrams[p].arrived} : p \in Peers}

\* A DatagramHandler that forgets its peers.
HandlerKnows_never(p) == FALSE

\* `addr in self.remotes`
HandlerKnows(p) == remotes[p].known

\* DatagramHandler after create_datagram_endpoint returned and the loop
\* called connection_made: the listener's socket is open, no peer is known.
HandlerInit ==
    /\ \E cbs \in {ListenerCallbacks, {}} : Untouched(cbs)
    /\ sorted_candidates = [done |-> FALSE, items |-> <<>>]
    /\ listener = [pc |-> "done", idx |-> 2, addrs |-> <<"::1">>,
                   candidates |-> <<[protocol |-> "udp", address |-> "::1"]>>,
                   up |-> {1}]
    /\ handler_transport = "open"
    /\ remotes = [p \in Peers |->
                     [known |-> FALSE, state |-> ESTABLISHING, recv_buffer |-> <<>>,
                      closes |-> 0]]
    /\ peer_dgrams = [p \in Peers |-> [arrived |-> <<>>, created |-> 0]]

\* What no step of the handler or of an accepted Connection changes.
HandlerFrame ==
    /\ UNCHANGED <<connVars, sessVars, recvVars, rhistVars>>
    /\ UNCHANGED <<est_changes, winner, late, close_log, send_log, written>>
    /\ UNCHANGED selVars
    /\ UNCHANGED <<remote_info, race_candidate_set, handle_start, listener>>

\* DatagramHandler.datagram_received(data, addr) for addr = p; the datagram
\* is named by its arrival number.  A known peer's datagram goes to
\* UdpTransport.datagram_received of its Connection's session (no waiter, no
\* framer: it is appended to recv_buffer).  For a new peer a Connection in
\* state ESTABLISHED with one UdpTransport on the handler's transport is
\* created, connection_received is scheduled, the datagram is stored and
\* the Connection is entered in remotes.
DatagramHandler_datagram_received(p) ==
    /\ handler_transport = "open"
    /\ Cardinality(Arrived) < MaxDgrams
    /\ LET d == Cardinality(Arrived) + 1 IN
       /\ IF HandlerKnows(p)
          THEN /\ remotes' = [remotes EXCEPT ![p].recv_buffer = Append(@, d)]
               /\ peer_dgrams' = [peer_dgrams EXCEPT ![p].arrived = Append(@, d)]
               /\ UNCHANGED <<loopq, events>>
          ELSE /\ remotes' = [remotes EXCEPT ![p] =
                      [known |-> TRUE, state |-> ESTABLISHED, recv_buffer |-> <<d>>,
                       closes |-> 0]]
               /\ peer_dgrams' = [peer_dgrams EXCEPT ![p].arrived = Append(@, d),
                                                     ![p].created = @ + 1]
               /\ loopq' = ScheduleCallback(loopq, "connection_received", 0, p)
               /\ events' = LogCallback(events, "connection_received", 0, p, ESTABLISHED)
    /\ UNCHANGED handler_transport
    /\ HandlerFrame

\* Connection.close() on the Connection accepted for peer p:
\* `create_task(self.transports[0].close())`, `self.state = CLOSING`.
accepted_close(p) ==
    /\ remotes[p].known
    /\ remotes[p].closes < MaxClose
    /\ remotes' = [remotes EXCEPT ![p].state = CLOSING, ![p].closes = @ + 1]
    /\ loopq' = Append(loopq, Task("close_accepted", 0, p, 0))
    /\ UNCHANGED <<events, handler_transport, peer_dgrams>>
    /\ HandlerFrame

\* UdpTransport.close() of an accepted Connection: `self.transport` is the
\* handler's transport (`new_udp.transport = self.transport`), so
\* `self.transport.close()` closes the listener's socket.
UdpTransport_close_accepted ==
    /\ HeadIs("close_accepted")
    /\ LET p == Head(loopq).a IN
       /\ handler_transport' = "closed"
       /\ remotes' = [remotes EXCEPT ![p].state = UdpCloseState]
       /\ loopq' = ScheduleCallback(Tail(loopq), "closed", 0, p)
       /\ events' = LogCallback(events, "closed", 0, p, UdpCloseState)
    /\ UNCHANGED peer_dgrams
    /\ HandlerFrame

HandlerNext ==
    \/ \E p \in Peers : DatagramHandler_datagram_received(p)
    \/ \E p \in Peers : accepted_close(p)
    \/ UdpTransport_close_accepted
    \/ run_callback

HandlerSpec == HandlerInit /\ [][HandlerNext]_vars

-----------------------------------------------------------------------------
(* Properties *)

EventsNamed(name) == {k \in DOMAIN events : events[k].name = name}

\* connection_made of session s has been called and has returned.
ConnectionMadeRan(s) ==
    /\ att[s] = "connected"
    /\ \A k \in DOMAIN loopq : ~(loopq[k].kind = "connection_made" /\ loopq[k].s = s)

\* C1: under any interleaving of the attempts' completions, the state of the
\* Connection changes from ESTABLISHING to ESTABLISHED at most once.
C1_EstablishedAtMostOnce == est_changes <= 1

\* Two attempts of one race have both run their active_open task.
C1_TwoAttemptsOpened ==
    /\ est_changes = 1
    /\ Cardinality({s \in Sessions : transport_set[s]}) >= 2

\* C2: the ready callback is scheduled at most once for a Connection, and
\* only by the attempt that won.
C2_ReadyScheduledOnce ==
    /\ Cardinality(EventsNamed("ready")) <= 1
    /\ \A k \in EventsNamed("ready") : events[k].by = winner

\* C3: an attempt whose connect completes after another attempt has won has
\* its socket closed by connection_made and schedules no callback, whatever
\* the state of the Connection is by then.
C3_LateAttemptDiscarded ==
    \A s \in late :
        /\ ConnectionMadeRan(s) => sock[s] = "closed"
        /\ \A k \in DOMAIN events : events[k].by # s

\* C4: once the Connection is ESTABLISHED, transports[0] (the session that
\* send_message and receive are delegated to) is the session of the attempt
\* that set the state to ESTABLISHED.
C4_ActiveSessionIsWinner ==
    state = ESTABLISHED => transports # <<>> /\ transports[1] = winner

\* C5: every change of the state is ESTABLISHING -> ESTABLISHED,
\* ESTABLISHED -> CLOSING or CLOSING -> CLOSED.
C5_LifecycleOrder ==
    [][state' # state =>
          <<state, state'>> \in {<<ESTABLISHING, ESTABLISHED>>,
                                 <<ESTABLISHED, CLOSING>>,
                                 <<CLOSING, CLOSED>>}]_vars

\* C6: once the Connection is CLOSED its state never changes again, also
\* when close() is called again.
C6_ClosedIsTerminal == [][state = CLOSED => state' = CLOSED]_vars

\* C7: a close() call on an ESTABLISHED Connection, with a stream or a
\* datagram session, returns with the state CLOSING; the closed callback is
\* scheduled only with the state CLOSED and at most once per close() call.
C7_CloseOnEstablished ==
    /\ \A k \in DOMAIN close_log :
          close_log[k].pre = ESTABLISHED =>
              close_log[k].raised = "" /\ close_log[k].post = CLOSING
    /\ \A k \in EventsNamed("closed") : events[k].st = CLOSED
    /\ Cardinality(EventsNamed("closed")) <= Len(close_log)

\* C8: a send on a Connection that is not ESTABLISHED schedules exactly one
\* send_error event, carrying the sequence number of that call (the calls
\* taken here are those that reached a session).
C8_SendErrorWhenNotEstablished ==
    "send_error" \in callbacks =>
        \A k \in DOMAIN send_log :
            (send_log[k].s # 0 /\ send_log[k].pre # ESTABLISHED) =>
                Cardinality({j \in EventsNamed("send_error") :
                                 /\ events[j].by = send_log[k].s
                                 /\ events[j].arg = send_log[k].n}) = 1

\* C9: the n-th call of send on a session returns n, whether the Connection
\* is ESTABLISHED or not.
C9_SendReturnsCallNumber ==
    \A k \in DOMAIN send_log :
        send_log[k].s # 0 =>
            /\ send_log[k].raised = ""
            /\ send_log[k].ret =
                   Cardinality({j \in 1..k : send_log[j].s = send_log[k].s})

\* C10: on a stream session without a framer no receive request is delivered
\* data while fewer than min_incomplete_length bytes are buffered and
\* end-of-stream has not been observed.
C10_NoDeliveryBelowMin ==
    \A k \in DOMAIN deliveries :
        \/ deliveries[k].buflen >= requests[deliveries[k].r].min
        \/ deliveries[k].eof

\* A request for at least 3 bytes that suspended, was woken by a read that
\* left fewer than 3 bytes buffered, suspended again and was delivered data
\* after a later read, before end-of-stream.
C10_DeliveredAfterSecondRead ==
    \E k \in DOMAIN deliveries :
        /\ requests[deliveries[k].r].min = 3
        /\ requests[deliveries[k].r].waits >= 2
        /\ ~deliveries[k].eof


\* The oldest request that has not been delivered data, 0 if there is none.
Delivered(r) == \E k \in DOMAIN deliveries : deliveries[k].r = r

OldestUndelivered ==
    IF \E r \in DOMAIN requests : ~Delivered(r)
    THEN CHOOSE r \in DOMAIN requests :
            ~Delivered(r) /\ \A q \in 1..(r - 1) : Delivered(q)
    ELSE 0

\* No loop step is left to run: only network input or a call of the
\* application changes the state.
Quiescent == loopq = <<>>

\* C11: a stream receive request whose min_incomplete_length is at most the
\* buffered length is satisfied without further network input: the loop
\* never runs out of steps while the oldest undelivered request is suspended
\* with enough bytes buffered.
C11_BufferedDataSatisfiesRequest ==
    ~(/\ Quiescent
      /\ \E t \in suspended :
            /\ t.r = OldestUndelivered
            /\ requests[t.r].min <= BufLen(recv_buffer))

\* C12: a stream receive request suspended when end-of-stream is observed is
\* woken and satisfied with the buffered bytes: after end-of-stream the loop
\* never runs out of steps with bytes buffered and a request still suspended.
C12_EofSatisfiesSuspended ==
    ~(eof_seen /\ Quiescent /\ suspended # {} /\ BufLen(recv_buffer) > 0)

\* C13: a stream delivery is reported through received iff end-of-stream had
\* been observed by the time of the delivery, else through received_partial.
C13_ReceivedIffEof ==
    \A k \in DOMAIN deliveries :
        /\ deliveries[k].via \in {"received", "received_partial"}
        /\ deliveries[k].via = "received" <=> deliveries[k].eof

\* C14: a satisfied stream receive takes all of the buffer B if max_length is
\* -1 or Len(B) <= max_length and leaves the buffer empty; else it takes the
\* first max_length bytes of B and leaves the others in order.
C14_DeliverySlicesBuffer ==
    \A k \in DOMAIN deliveries :
        LET d == deliveries[k]
            B == d.before
            max == requests[d.r].max
        IN  IF max = -1 \/ Len(B) <= max
            THEN d.data = B /\ BufLen(d.rest) = 0
            ELSE /\ d.data = [j \in 1..max |-> B[j]]
                 /\ ~d.rest.none
                 /\ d.rest.data = [j \in 1..(Len(B) - max) |-> B[max + j]]

C14_DeliveredFirstMaxLength ==
    \E k \in DOMAIN deliveries :
        /\ requests[deliveries[k].r].max = 2
        /\ Len(deliveries[k].before) > 2
        /\ Len(deliveries[k].data) = 2

\* The chunks delivered so far, concatenated in delivery order.
RECURSIVE Concat(_)
Concat(ds) == IF ds = <<>> THEN <<>> ELSE Head(ds) \o Concat(Tail(ds))

DeliveredData == Concat([k \in DOMAIN deliveries |-> deliveries[k].data])

\* C15: the chunks delivered so far followed by the buffer are the bytes
\* read from the network so far, in order.
C15_NoByteLostOrReordered ==
    DeliveredData \o (IF recv_buffer.none THEN <<>> ELSE recv_buffer.data)
        = Bytes(1, net_in)

C15_TwoChunksAndRest ==
    /\ Len(deliveries) >= 2
    /\ BufLen(recv_buffer) > 0
    /\ deliveries[1].data # <<>>
    /\ deliveries[2].data # <<>>

\* C16: receive requests are satisfied in the order they were issued: when a
\* request is delivered data, every request issued before it has been.
C16_RequestsSatisfiedInOrder ==
    \A k \in DOMAIN deliveries :
        \A q \in 1..(deliveries[k].r - 1) :
            \E j \in 1..k : deliveries[j].r = q

\* C17: on a datagram session every delivery is one whole inbound datagram,
\* reported through received, whatever min_incomplete_length and max_length
\* the request had.
C17_DatagramDeliveredWhole ==
    \A k \in DOMAIN deliveries :
        /\ deliveries[k].via = "received"
        /\ \E j \in DOMAIN dgrams_in : deliveries[k].data = dgrams_in[j]

C17_LongDatagramShortMaxLength ==
    \E k \in DOMAIN deliveries :
        /\ requests[deliveries[k].r].max = 2
        /\ requests[deliveries[k].r].min = inf
        /\ Len(deliveries[k].data) = 3
        /\ Len(dgrams_in) >= 2

\* C18: on a datagram session the datagrams delivered so far followed by the
\* buffered ones are the datagrams received so far, in order.
C18_DatagramsOldestFirst ==
    [k \in DOMAIN deliveries |-> deliveries[k].data]
        \o (IF recv_buffer.none THEN <<>> ELSE recv_buffer.data)
        = dgrams_in

C18_TwoDeliveredOneBuffered ==
    /\ Len(deliveries) = 2
    /\ ~recv_buffer.none
    /\ Len(dgrams_in) = 3

\* The names create_candidates returned, in order.
CandidateNames == [k \in DOMAIN sorted_candidates.items |-> sorted_candidates.items[k].name]

\* Row k of the table has every REQUIRE-level property and no PROHIBIT-level one.
Viable(k) ==
    \A p \in DOMAIN transport_properties :
        /\ transport_properties[p] = REQUIRE => available_protocols[k].flags[p]
        /\ transport_properties[p] = PROHIBIT => ~available_protocols[k].flags[p]

\* The row of the table a returned item is for.
RowOf(name) == CHOOSE k \in DOMAIN available_protocols : available_protocols[k].name = name

\* The number of declared properties of a level that row k has.
CountOf(level, k) ==
    Cardinality({p \in DOMAIN transport_properties :
                    transport_properties[p] = level /\ available_protocols[k].flags[p]})

\* C19: create_candidates returns exactly the protocols that have every
\* REQUIRE-level property and no PROHIBIT-level property, each once.
C19_ExactlyViableProtocols ==
    sorted_candidates.done =>
        /\ {CandidateNames[k] : k \in DOMAIN CandidateNames}
              = {available_protocols[k].name : k \in {j \in DOMAIN available_protocols : Viable(j)}}
        /\ \A i, j \in DOMAIN CandidateNames : i # j => CandidateNames[i] # CandidateNames[j]

C19_ReliableRequired ==
    /\ sorted_candidates.done
    /\ DOMAIN transport_properties = {"reliable"}
    /\ transport_properties["reliable"] = REQUIRE
    /\ Len(available_protocols) = 2
    /\ available_protocols[1].flags["reliable"]
    /\ ~available_protocols[2].flags["reliable"]
    /\ CandidateNames = <<"tcp">>

\* C20: the returned protocols carry the count of PREFER-level properties
\* they have and minus the count of AVOID-level ones, are in descending
\* order of (prefer, avoid), and with equal scores in the table's order.
C20_SortedByPreferThenAvoid ==
    sorted_candidates.done =>
        LET items == sorted_candidates.items IN
        /\ \A k \in DOMAIN items :
              /\ items[k].prefer = CountOf(PREFER, RowOf(items[k].name))
              /\ items[k].avoid = 0 - CountOf(AVOID, RowOf(items[k].name))
        /\ \A i, j \in DOMAIN items : i < j =>
              \/ items[i].prefer > items[j].prefer
              \/ /\ items[i].prefer = items[j].prefer
                 /\ items[i].avoid > items[j].avoid
              \/ /\ items[i].prefer = items[j].prefer
                 /\ items[i].avoid = items[j].avoid
                 /\ RowOf(items[i].name) < RowOf(items[j].name)

C20_ReorderedWithTie ==
    /\ sorted_candidates.done
    /\ Len(sorted_candidates.items) = 3
    /\ CandidateNames = <<"sctp", "tcp", "udp">>
    /\ sorted_candidates.items[1].prefer = sorted_candidates.items[2].prefer
    /\ sorted_candidates.items[1].avoid > sorted_candidates.items[2].avoid
    /\ sorted_candidates.items[2].prefer = sorted_candidates.items[3].prefer
    /\ sorted_candidates.items[2].avoid = sorted_candidates.items[3].avoid

AllAttemptsFailed ==
    /\ candidate_set # <<>>
    /\ rpc = "done"
    /\ loopq = <<>>
    /\ \A s \in Sessions : att[s] = "failed"
    /\ ~RaceStops(state)

\* C22: when every attempt of a race has failed the state is still
\* ESTABLISHING and initiate_error has been fired.
C22_ExhaustionFiresInitiateError ==
    (AllAttemptsFailed /\ "initiate_error" \in callbacks) =>
        /\ state = ESTABLISHING
        /\ EventsNamed("initiate_error") # {}

\* C23: race returns normally, with initiate_error scheduled, when the
\* resolution of the host name fails: it never ends with an exception.
C23_ResolutionFailureNotPropagated ==
    rpc # "raised"

C25_UnsetCallbackRaisesNothing ==
    callbacks = {} =>
        \A k \in DOMAIN send_log : send_log[k].s # 0 => send_log[k].raised = ""

\* The sent and send_error events of session s, in the order scheduled.
SendEvents(s) ==
    SelectSeq(events, LAMBDA e : e.by = s /\ e.name \in {"sent", "send_error"})

\* The send calls on session s that returned a sequence number, in call order.
ReturnedSends(s) ==
    SelectSeq(send_log, LAMBDA l : l.s = s /\ l.raised = "")

\* C26: the sent or send_error event of the k-th send on an ESTABLISHED
\* session carries the number that call returned.
C26_EventCarriesCallNumber ==
    \A s \in Sessions :
        \A j \in DOMAIN SendEvents(s) :
            /\ j <= Len(ReturnedSends(s))
            /\ SendEvents(s)[j].arg = ReturnedSends(s)[j].ret

\* C27: when new bytes arrive on a stream session every suspended receive
\* request is woken.
C27_DataWakesEveryWaiter ==
    [][net_in' > net_in => suspended' = {}]_vars

C29_LosersCancelledAtWin ==
    (state = ESTABLISHED /\ winner # 0) =>
        \A s \in Sessions \ {winner} :
            /\ att[s] \notin {"connecting", "handshake"}
            /\ sock[s] # "open"

\* C30: the racing delay is cancelled at the moment an attempt establishes
\* the Connection: the racer does not stay suspended in the delay.
C30_DelayCancelledAtWin ==
    [][(rpc = "sleep" /\ state # ESTABLISHED /\ state' = ESTABLISHED)
           => rpc' # "sleep"]_vars

\* C31: the racer launches the candidates in order, each at most once, the
\* next one only after the racing delay has ended, in one pass.
C31_OnePassInOrder ==
    [][/\ \A s \in Sessions :
            /\ (att[s] = "new" /\ att'[s] # "new") =>
                    /\ att'[s] = "connecting"
                    /\ s = ridx
                    /\ rpc = "loop"
                    /\ \A q \in 1..(s - 1) : att[q] # "new"
            /\ att[s] # "new" => att'[s] # "new"
            /\ (att[s] # "connecting" /\ att'[s] = "connecting") => att[s] = "new"
       /\ rpc = "sleep" => (att' = att \/ rpc' = "sleep")
       /\ ridx' >= ridx
       /\ rpc = "done" => rpc' = "done"]_vars

C31_SecondLaunchedAfterDelay ==
    /\ Len(candidate_set) = 2
    /\ rpc = "done"
    /\ ridx = 3
    /\ att[1] = "failed"
    /\ att[2] = "connected"

\* C32: once the racer has created the datagram endpoint of a UDP candidate
\* it has ended, and no later candidate is ever launched.
C32_UdpEndsTheRace ==
    \A s \in Sessions :
        (proto(s) = "udp" /\ att[s] # "new") =>
            /\ rpc = "done"
            /\ \A q \in (s + 1)..Len(candidate_set) : att[q] = "new"

C32_UdpFailedOthersUntried ==
    /\ Len(candidate_set) = 4
    /\ att[1] = "failed"
    /\ att[2] = "failed"
    /\ proto(2) = "udp"
    /\ att[3] = "new"
    /\ loopq = <<>>

\* C37: initiate_error and ready are mutually exclusive for one Connection.
C37_InitiateErrorExcludesReady ==
    ~(EventsNamed("initiate_error") # {} /\ EventsNamed("ready") # {})

\* C38: on a datagram session a read that proceeds past its wait finds at
\* least one datagram buffered: when a woken read is the next step of the
\* loop, recv_buffer is not None.
C38_ResumedReadFindsDatagram ==
    (loopq # <<>> /\ Head(loopq).kind = "resume") => ~recv_buffer.none

\* C39: no received, received_partial or sent event is scheduled for a
\* Connection whose state is CLOSED.
C39_NoDataEventAfterClosed ==
    \A k \in DOMAIN events :
        events[k].name \in {"received", "received_partial", "sent"}
            => events[k].st # CLOSED

\* The family of a resolved address.
FamilyOf(a) == (CHOOSE i \in AddrInfos : i.addr = a).family

\* The rank of a protocol in the list create_candidates returned.
RankOf(name) ==
    CHOOSE k \in DOMAIN sorted_candidates.items : sorted_candidates.items[k].name = name

\* C33: the candidate set holds every (ranked protocol, resolved address)
\* pair exactly once, IPv6 addresses before IPv4 ones and, for one address,
\* the protocols in ranked order.
C33_CandidateSetIsCrossProduct ==
    race_candidate_set.done =>
        LET cs == race_candidate_set.items IN
        /\ {cs[k] : k \in DOMAIN cs}
              = {[protocol |-> sorted_candidates.items[p].name, address |-> remote_info[a].addr] :
                    p \in DOMAIN sorted_candidates.items, a \in DOMAIN remote_info}
        /\ \A i, j \in DOMAIN cs : i < j =>
              /\ cs[i] # cs[j]
              /\ ~(FamilyOf(cs[i].address) = AF_INET /\ FamilyOf(cs[j].address) = AF_INET6)
              /\ cs[i].address = cs[j].address => RankOf(cs[i].protocol) < RankOf(cs[j].protocol)

C33_DuplicateAddressTwoFamilies ==
    /\ race_candidate_set.done
    /\ Len(remote_info) = 3
    /\ remote_info[1].family = AF_INET
    /\ remote_info[2].family = AF_INET6
    /\ remote_info[3] = remote_info[1]
    /\ Len(sorted_candidates.items) = 2
    /\ Len(race_candidate_set.items) = 4

\* C34: with a framer, handle_start is called at most once for a session,
\* exactly once for a session whose active_open has run, and ready is
\* scheduled for a session only after its handle_start has returned, never
\* while it is pending.
C34_ReadyAfterHandleStart ==
    \A s \in Sessions :
        /\ handle_start[s].calls <= 1
        /\ (active /\ transport_set[s]) => handle_start[s].calls = 1
        /\ (\E k \in EventsNamed("ready") : events[k].by = s) =>
              /\ handle_start[s].calls = 1
              /\ handle_start[s].returned
              /\ ~handle_start[s].pending
        /\ Cardinality({k \in EventsNamed("ready") : events[k].by = s}) <= 1

C34_ReadyAfterFramerStarted ==
    \E s \in Sessions :
        /\ handle_start[s] = [calls |-> 1, pending |-> FALSE, returned |-> TRUE]
        /\ \E k \in EventsNamed("ready") : events[k].by = s
        /\ \E q \in Sessions : q # s /\ handle_start[q].pending

\* C35: start_listener fires listen_error only when no candidate listener
\* was set up (every candidate failed, or there was no protocol candidate).
C35_ListenErrorOnlyIfNoneUp ==
    EventsNamed("listen_error") # {} => listener.up = {}

\* C36: a datagram listener creates one Connection per peer, at the peer's
\* first datagram, in state ESTABLISHED, and schedules connection_received
\* once for it; every datagram of the peer is in that Connection's session
\* buffer, in arrival order.
C36_OneConnectionPerPeer ==
    \A p \in Peers :
        /\ peer_dgrams[p].created = (IF peer_dgrams[p].arrived = <<>> THEN 0 ELSE 1)
        /\ remotes[p].known <=> peer_dgrams[p].arrived # <<>>
        /\ remotes[p].known => remotes[p].recv_buffer = peer_dgrams[p].arrived
        /\ LET received == {k \in EventsNamed("connection_received") : events[k].arg = p} IN
           /\ Cardinality(received) =
                 (IF remotes[p].known /\ "connection_received" \in callbacks THEN 1 ELSE 0)
           /\ \A k \in received : events[k].st = ESTABLISHED

C36_TwoPeersInterleaved ==
    /\ peer_dgrams["peerA"].arrived = <<1, 3>>
    /\ peer_dgrams["peerB"].arrived = <<2>>
    /\ remotes["peerA"].recv_buffer = <<1, 3>>
    /\ remotes["peerA"].state = ESTABLISHED
    /\ Cardinality(EventsNamed("connection_received")) = 2

\* C40: closing one accepted Connection leaves the listener's socket open.
C40_ListenerSocketStaysOpen ==
    (\E p \in Peers : remotes[p].state = CLOSED) => handler_transport = "open"

====
